---- MODULE Spec2Model ----
(***************************************************************************)
(* Model of the reconciliation core of src/main.py: the JSON extractor,    *)
(* the scalar and shape normalizers and the post-response part of detect.  *)
(*                                                                         *)
(* A Python str is a sequence of characters.  A character is a one-letter  *)
(* string for ASCII, or "U+XXXX" naming a non-ASCII code point.            *)
(* A JSON value is a record [t, v]:                                        *)
(*   t = "str"   v = the characters                                        *)
(*   t = "num"   v = the digits of a non-negative int                      *)
(*   t = "bool"  v = <<"1">> for true, <<>> for false                       *)
(*   t = "null"  v = <<>>            (Python None, also an absent key)      *)
(*   t = "list"  v = the items                                              *)
(*   t = "map"   v = the <<key, value>> pairs in insertion order            *)
(***************************************************************************)
EXTENDS Naturals, Sequences, FiniteSets

VARIABLES pc, text, data, code, duty, vat, tech31, alternatives, payments,
          requirements, decl31, out, call, ret

vars == <<pc, text, data, code, duty, vat, tech31, alternatives, payments,
          requirements, decl31, out, call, ret>>

(***************************************************************************)
(* Characters                                                              *)
(***************************************************************************)
AsciiDigits == {"0", "1", "2", "3", "4", "5", "6", "7", "8", "9"}

LowerSeq == <<"a","b","c","d","e","f","g","h","i","j","k","l","m",
              "n","o","p","q","r","s","t","u","v","w","x","y","z">>

UpperSeq == <<"A","B","C","D","E","F","G","H","I","J","K","L","M",
              "N","O","P","Q","R","S","T","U","V","W","X","Y","Z">>

\* The small Cyrillic letters of "код", "обоснование" and "группа"
\* (a, be, ve, ghe, de, ie, i, ka, en, o, pe, er, es, u) and their capitals.
CyrLowerSeq == <<"U+0430","U+0431","U+0432","U+0433","U+0434","U+0435","U+0438",
                 "U+043A","U+043D","U+043E","U+043F","U+0440","U+0441","U+0443">>

CyrUpperSeq == <<"U+0410","U+0411","U+0412","U+0413","U+0414","U+0415","U+0418",
                 "U+041A","U+041D","U+041E","U+041F","U+0420","U+0421","U+0423">>

Range(s) == {s[i] : i \in 1..Len(s)}

\* \d of the re module (on the characters the model uses).
IsDigit(c) == c \in AsciiDigits

\* \w of the re module: letters, digits and the underscore.
IsWord(c) == \/ IsDigit(c)
             \/ c \in Range(LowerSeq) \cup Range(UpperSeq)
             \/ c \in Range(CyrLowerSeq) \cup Range(CyrUpperSeq)
             \/ c = "_"

\* The characters str.strip() removes.
Whitespace == {" ", "\t", "\n", "\r"}

\* to[i] for the i with from[i] = c, and c when there is none.
MapChar(c, from, to) ==
  IF \E i \in 1..Len(from) : from[i] = c
  THEN to[CHOOSE i \in 1..Len(from) : from[i] = c]
  ELSE c

\* str.upper() and str.lower() on one character.
UpperChar(c) == MapChar(c, LowerSeq \o CyrLowerSeq, UpperSeq \o CyrUpperSeq)

LowerChar(c) == MapChar(c, UpperSeq \o CyrUpperSeq, LowerSeq \o CyrLowerSeq)

(***************************************************************************)
(* str methods                                                             *)
(***************************************************************************)
RECURSIVE LStripOf(_, _)
LStripOf(s, cs) == IF s # <<>> /\ Head(s) \in cs THEN LStripOf(Tail(s), cs) ELSE s

RECURSIVE RStripOf(_, _)
RStripOf(s, cs) == IF s # <<>> /\ s[Len(s)] \in cs
                   THEN RStripOf(SubSeq(s, 1, Len(s) - 1), cs) ELSE s

\* s.strip(chars)
StripOf(s, cs) == RStripOf(LStripOf(s, cs), cs)

\* s.strip()
Strip(s) == StripOf(s, Whitespace)

\* s.replace(a, b) for single characters a and b.
ReplaceChar(s, a, b) == [i \in 1..Len(s) |-> IF s[i] = a THEN b ELSE s[i]]

\* s.replace(a, "") for a single character a.
RemoveChar(s, a) == SelectSeq(s, LAMBDA c : c # a)

\* s.upper()
Upper(s) == [i \in 1..Len(s) |-> UpperChar(s[i])]

\* s.capitalize()
Capitalize(s) ==
  [i \in 1..Len(s) |-> IF i = 1 THEN UpperChar(s[i]) ELSE LowerChar(s[i])]

\* s.startswith(p)
StartsWith(s, p) == Len(s) >= Len(p) /\ SubSeq(s, 1, Len(p)) = p

\* sep.join(parts)
RECURSIVE Join(_, _)
Join(sep, parts) ==
  IF parts = <<>> THEN <<>>
  ELSE IF Len(parts) = 1 THEN parts[1]
  ELSE parts[1] \o sep \o Join(sep, Tail(parts))

UNKNOWN == <<"U","N","K","N","O","W","N">>

\* The dash sentinel, U+2014.
DASH == <<"U+2014">>

(***************************************************************************)
(* Scalar normalizers                                                      *)
(***************************************************************************)
\* {10} of TEN_DIGITS.
CodeLen == 10

\* \b at the gap before position i of s (1 <= i <= Len(s) + 1).
WordBoundary(s, i) ==
  LET before == i > 1 /\ IsWord(s[i - 1])
      after  == i <= Len(s) /\ IsWord(s[i])
  IN  before # after

\* TEN_DIGITS matches at position i of s.
TenDigitsAt(s, i) ==
  /\ i + CodeLen - 1 <= Len(s)
  /\ \A j \in i..(i + CodeLen - 1) : IsDigit(s[j])
  /\ WordBoundary(s, i)
  /\ WordBoundary(s, i + CodeLen)

\* TEN_DIGITS.search: the leftmost match from position i on, "" if none.
RECURSIVE TenDigitsSearch(_, _)
TenDigitsSearch(s, i) ==
  IF i + CodeLen - 1 > Len(s) THEN <<>>
  ELSE IF TenDigitsAt(s, i) THEN SubSeq(s, i, i + CodeLen - 1)
  ELSE TenDigitsSearch(s, i + 1)

take_10digits(s) ==
  IF s = <<>> THEN <<>> ELSE TenDigitsSearch(RemoveChar(s, " "), 1)

\* The end of the longest run of digits of s that starts at i.
RECURSIVE DigitsEnd(_, _)
DigitsEnd(s, i) ==
  IF i + 1 <= Len(s) /\ IsDigit(s[i + 1]) THEN DigitsEnd(s, i + 1) ELSE i

\* group(1) of the leftmost match of (\d+(\.\d+)?)\s*%? in s: the match
\* starts at the first digit, \d+ is greedy, and the fraction is taken
\* when a point and a digit follow.  \s*%? never changes group(1).
PercentGroup(s) ==
  LET i == CHOOSE k \in 1..Len(s) :
             IsDigit(s[k]) /\ \A j \in 1..(k - 1) : ~IsDigit(s[j])
      e == DigitsEnd(s, i)
      f == IF e + 2 <= Len(s) /\ s[e + 1] = "." /\ IsDigit(s[e + 2])
           THEN DigitsEnd(s, e + 2) ELSE e
  IN  SubSeq(s, i, f)

norm_percent(s) ==
  IF s = <<>> THEN <<>>
  ELSE LET t == ReplaceChar(Strip(s), ",", ".")
       IN  IF \E k \in 1..Len(t) : IsDigit(t[k])
           THEN PercentGroup(t) \o <<"%">>
           ELSE <<>>

(***************************************************************************)
(* JSON values as Python sees them                                         *)
(***************************************************************************)
StrV(s)  == [t |-> "str",  v |-> s]
NumV(d)  == [t |-> "num",  v |-> d]
TrueV    == [t |-> "bool", v |-> <<"1">>]
FalseV   == [t |-> "bool", v |-> <<>>]
NoneV    == [t |-> "null", v |-> <<>>]
ListV(x) == [t |-> "list", v |-> x]
MapV(p)  == [t |-> "map",  v |-> p]

IsStr(x)  == x.t = "str"
IsList(x) == x.t = "list"
IsMap(x)  == x.t = "map"

\* bool(x): what `if x`, `x or y` and `not x` test.
Truthy(x) == IF x.t = "num" THEN x.v # <<"0">> ELSE x.v # <<>>

\* x or y
Or(x, y) == IF Truthy(x) THEN x ELSE y

\* k in m
HasKey(m, k) == \E i \in 1..Len(m.v) : m.v[i][1] = k

\* m.get(k): None when the key is absent.
Get(m, k) ==
  IF HasKey(m, k)
  THEN m.v[CHOOSE i \in 1..Len(m.v) : m.v[i][1] = k][2]
  ELSE NoneV

\* m.get(k, "")
GetOrEmpty(m, k) == IF HasKey(m, k) THEN Get(m, k) ELSE StrV(<<>>)

\* m[k] = x: a key already there keeps its place.
MapPut(p, k, x) ==
  IF \E i \in 1..Len(p) : p[i][1] = k
  THEN [i \in 1..Len(p) |-> IF p[i][1] = k THEN <<k, x>> ELSE p[i]]
  ELSE Append(p, <<k, x>>)

\* str(x) and repr(x).  The strings of the model hold no quote and no
\* backslash, so repr of a str is the str between single quotes.
RECURSIVE PyStr(_)
RECURSIVE PyRepr(_)
RECURSIVE ReprItems(_)
RECURSIVE ReprPairs(_)
ReprItems(xs) ==
  IF xs = <<>> THEN <<>> ELSE <<PyRepr(Head(xs))>> \o ReprItems(Tail(xs))

ReprPairs(ps) ==
  IF ps = <<>> THEN <<>>
  ELSE <<PyRepr(StrV(Head(ps)[1])) \o <<":", " ">> \o PyRepr(Head(ps)[2])>>
       \o ReprPairs(Tail(ps))

PyStr(x) ==
  CASE x.t = "str"  -> x.v
    [] x.t = "num"  -> x.v
    [] x.t = "bool" -> IF x.v # <<>> THEN <<"T","r","u","e">>
                                     ELSE <<"F","a","l","s","e">>
    [] x.t = "null" -> <<"N","o","n","e">>
    [] x.t = "list" -> <<"[">> \o Join(<<",", " ">>, ReprItems(x.v)) \o <<"]">>
    [] x.t = "map"  -> <<"{">> \o Join(<<",", " ">>, ReprPairs(x.v)) \o <<"}">>

PyRepr(x) == IF x.t = "str" THEN <<"'">> \o x.v \o <<"'">> ELSE PyStr(x)

\* Whether x.strip() raises AttributeError: only a str has strip.
StripRaises(x) == ~IsStr(x)

(***************************************************************************)
(* Keys                                                                    *)
(***************************************************************************)
K_code         == <<"c","o","d","e">>
K_duty         == <<"d","u","t","y">>
K_vat          == <<"v","a","t">>
K_tech31       == <<"t","e","c","h","3","1">>
K_alternatives == <<"a","l","t","e","r","n","a","t","i","v","e","s">>
K_payments     == <<"p","a","y","m","e","n","t","s">>
K_requirements == <<"r","e","q","u","i","r","e","m","e","n","t","s">>
K_decl31       == <<"d","e","c","l","3","1">>
K_description  == <<"d","e","s","c","r","i","p","t","i","o","n">>
K_classification_reason ==
  <<"c","l","a","s","s","i","f","i","c","a","t","i","o","n","_",
    "r","e","a","s","o","n">>
K_excise       == <<"e","x","c","i","s","e">>
K_fees         == <<"f","e","e","s">>
K_reason       == <<"r","e","a","s","o","n">>
\* "код" and "обоснование"
K_kod          == <<"U+043A","U+043E","U+0434">>
K_obosnovanie  == <<"U+043E","U+0431","U+043E","U+0441","U+043D","U+043E",
                    "U+0432","U+0430","U+043D","U+0438","U+0435">>

(***************************************************************************)
(* Shape normalizers                                                       *)
(***************************************************************************)
\* [str(x).strip() for x in xs if str(x).strip()]
RECURSIVE StrippedItems(_)
StrippedItems(xs) ==
  IF xs = <<>> THEN <<>>
  ELSE LET s == Strip(PyStr(Head(xs)))
       IN  (IF s # <<>> THEN <<s>> ELSE <<>>) \o StrippedItems(Tail(xs))

\* [f"{kk}: {vv}" for kk, vv in ps]
RECURSIVE KeyValueItems(_)
KeyValueItems(ps) ==
  IF ps = <<>> THEN <<>>
  ELSE <<Head(ps)[1] \o <<":", " ">> \o PyStr(Head(ps)[2])>>
       \o KeyValueItems(Tail(ps))

\* The "- Key: value" lines of a mapping, empty values left out.
RECURSIVE Tech31Parts(_)
Tech31Parts(ps) ==
  IF ps = <<>> THEN <<>>
  ELSE LET k_s == Capitalize(Strip(Head(ps)[1]))
           v   == Head(ps)[2]
           v_s == IF IsList(v) THEN Join(<<";", " ">>, StrippedItems(v.v))
                  ELSE IF IsMap(v) THEN Join(<<";", " ">>, KeyValueItems(v.v))
                  ELSE Strip(PyStr(v))
       IN  (IF v_s # <<>>
            THEN <<(<<"-", " ">> \o k_s \o <<":", " ">> \o v_s)>>
            ELSE <<>>) \o Tech31Parts(Tail(ps))

\* ["- " + s for s in xs]
Dashed(xs) == [i \in 1..Len(xs) |-> <<"-", " ">> \o xs[i]]

stringify_tech31(val) ==
  CASE val.t = "null" -> <<>>
    [] val.t = "str"  -> Strip(val.v)
    [] val.t = "map"  -> Join(<<"\n">>, Tech31Parts(val.v))
    [] val.t = "list" -> Join(<<"\n">>, Dashed(StrippedItems(val.v)))
    [] OTHER          -> Strip(PyStr(val))

\* AltOfItem reading the reason under the key of the code.
AltOfItem_reason_from_code(it) ==
  IF IsMap(it)
  THEN [code   |-> PyStr(Or(Or(GetOrEmpty(it, K_code), GetOrEmpty(it, K_kod)),
                            StrV(<<>>))),
        reason |-> PyStr(Or(Or(GetOrEmpty(it, K_code),
                               GetOrEmpty(it, K_obosnovanie)),
                            StrV(<<>>)))]
  ELSE [code |-> PyStr(it), reason |-> <<>>]

\* One record of the list branch of _normalize_alternatives.
AltOfItem(it) ==
  IF IsMap(it)
  THEN [code   |-> PyStr(Or(Or(GetOrEmpty(it, K_code), GetOrEmpty(it, K_kod)),
                            StrV(<<>>))),
        reason |-> PyStr(Or(Or(GetOrEmpty(it, K_reason),
                               GetOrEmpty(it, K_obosnovanie)),
                            StrV(<<>>)))]
  ELSE [code |-> PyStr(it), reason |-> <<>>]

normalize_alternatives(val) ==
  IF IsMap(val)
  THEN [i \in 1..Len(val.v) |->
          [code |-> val.v[i][1], reason |-> PyStr(val.v[i][2])]]
  ELSE IF IsList(val)
  THEN [i \in 1..Len(val.v) |-> AltOfItem(val.v[i])]
  ELSE IF Truthy(val)
  THEN <<[code |-> PyStr(val), reason |-> <<>>]>>
  ELSE <<>>

\* PaymentOf without the test for None.
PaymentOf_no_none_test(val, k, default) ==
  IF IsMap(val) /\ HasKey(val, k)
  THEN Strip(PyStr(Get(val, k)))
  ELSE default

\* d[k] after the loop of _normalize_payments.
PaymentOf(val, k, default) ==
  IF IsMap(val) /\ HasKey(val, k) /\ Get(val, k) # NoneV
  THEN Strip(PyStr(Get(val, k)))
  ELSE default

normalize_payments(val, fallback_duty, fallback_vat) ==
  [duty   |-> PaymentOf(val, K_duty, fallback_duty),
   vat    |-> PaymentOf(val, K_vat, fallback_vat),
   excise |-> PaymentOf(val, K_excise, DASH),
   fees   |-> PaymentOf(val, K_fees, DASH)]

\* The characters of [\n;] in _normalize_requirements.
ReqSeparators == {"\n", ";"}

\* The characters of s.strip(" -•\t"); the bullet is U+2022.
ReqStripChars == {" ", "-", "U+2022", "\t"}

\* re.split(r"[\n;]+", s): the pieces between the runs of separators,
\* an empty piece before a leading run and after a trailing one.
RECURSIVE SplitRuns(_)
SplitRuns(s) ==
  IF \A i \in 1..Len(s) : s[i] \notin ReqSeparators THEN <<s>>
  ELSE LET i == CHOOSE k \in 1..Len(s) :
                  /\ s[k] \in ReqSeparators
                  /\ \A j \in 1..(k - 1) : s[j] \notin ReqSeparators
           rest == LStripOf(SubSeq(s, i, Len(s)), ReqSeparators)
       IN  <<SubSeq(s, 1, i - 1)>> \o SplitRuns(rest)

\* [s.strip(" -•\t") for s in pieces if s.strip()]
RECURSIVE ReqItems(_)
ReqItems(pieces) ==
  IF pieces = <<>> THEN <<>>
  ELSE (IF Strip(Head(pieces)) # <<>>
        THEN <<StripOf(Head(pieces), ReqStripChars)>>
        ELSE <<>>) \o ReqItems(Tail(pieces))

normalize_requirements(val) ==
  IF IsList(val) THEN StrippedItems(val.v)
  ELSE IF IsStr(val)
  THEN LET items == ReqItems(SplitRuns(val.v))
       IN  IF items # <<>> THEN items ELSE <<Strip(val.v)>>
  ELSE IF Truthy(val) THEN <<PyStr(val)>>
  ELSE <<>>

(***************************************************************************)
(* json.loads, on the JSON the model writes: objects, arrays, strings with *)
(* the escapes \" \\ \/ \n \t \r, non-negative ints, true, false, null.    *)
(* No text of the model holds a float, a negative number, an exponent or   *)
(* another escape.  A parse step returns [ok, val, pos]: pos is the place  *)
(* after the value.                                                        *)
(***************************************************************************)
Fail == [ok |-> FALSE, val |-> NoneV, pos |-> 0]

Parsed(x, p) == [ok |-> TRUE, val |-> x, pos |-> p]

\* The whitespace json allows between tokens.
JsonWhitespace == {" ", "\t", "\n", "\r"}

RECURSIVE SkipWs(_, _)
SkipWs(s, i) ==
  IF i <= Len(s) /\ s[i] \in JsonWhitespace THEN SkipWs(s, i + 1) ELSE i

\* s[i..] starts with w.
LiteralAt(s, i, w) ==
  i + Len(w) - 1 <= Len(s) /\ SubSeq(s, i, i + Len(w) - 1) = w

Unescape(c) == CASE c = "n" -> "\n" [] c = "t" -> "\t" [] c = "r" -> "\r"
                 [] OTHER -> c

\* The characters of a string from position j on, up to the closing quote.
RECURSIVE ParseStringBody(_, _, _)
ParseStringBody(s, j, acc) ==
  IF j > Len(s) THEN Fail
  ELSE IF s[j] = "\"" THEN Parsed(StrV(acc), j + 1)
  ELSE IF s[j] = "\\"
  THEN IF j + 1 <= Len(s) /\ s[j + 1] \in {"\"", "\\", "/", "n", "t", "r"}
       THEN ParseStringBody(s, j + 2, Append(acc, Unescape(s[j + 1])))
       ELSE Fail
  ELSE IF s[j] \in {"\n", "\t", "\r"} THEN Fail
  ELSE ParseStringBody(s, j + 1, Append(acc, s[j]))

\* An int at position i, where s[i] is a digit: 0, or a run with no
\* leading zero.
ParseNumber(s, i) ==
  LET e == IF s[i] = "0" THEN i ELSE DigitsEnd(s, i)
  IN  IF e + 1 <= Len(s) /\ s[e + 1] \in {".", "e", "E"} THEN Fail
      ELSE Parsed(NumV(SubSeq(s, i, e)), e + 1)

RECURSIVE ParseValue(_, _)
RECURSIVE ParseMembers(_, _, _)
RECURSIVE ParseItems(_, _, _)

\* The members of an object from position i on, where a key must start.
ParseMembers(s, i, acc) ==
  IF i > Len(s) \/ s[i] # "\"" THEN Fail
  ELSE LET k == ParseStringBody(s, i + 1, <<>>)
       IN  IF ~k.ok THEN Fail
           ELSE LET c == SkipWs(s, k.pos)
                IN  IF c > Len(s) \/ s[c] # ":" THEN Fail
                    ELSE LET x == ParseValue(s, SkipWs(s, c + 1))
                         IN  IF ~x.ok THEN Fail
                             ELSE LET n   == SkipWs(s, x.pos)
                                      now == MapPut(acc, k.val.v, x.val)
                                  IN  IF n > Len(s) THEN Fail
                                      ELSE IF s[n] = "}"
                                      THEN Parsed(MapV(now), n + 1)
                                      ELSE IF s[n] = ","
                                      THEN ParseMembers(s, SkipWs(s, n + 1), now)
                                      ELSE Fail

\* The items of an array from position i on, where a value must start.
ParseItems(s, i, acc) ==
  LET x == ParseValue(s, i)
  IN  IF ~x.ok THEN Fail
      ELSE LET n   == SkipWs(s, x.pos)
               now == Append(acc, x.val)
           IN  IF n > Len(s) THEN Fail
               ELSE IF s[n] = "]" THEN Parsed(ListV(now), n + 1)
               ELSE IF s[n] = "," THEN ParseItems(s, SkipWs(s, n + 1), now)
               ELSE Fail

ParseValue(s, i) ==
  IF i > Len(s) THEN Fail
  ELSE IF s[i] = "\"" THEN ParseStringBody(s, i + 1, <<>>)
  ELSE IF s[i] = "{"
  THEN LET j == SkipWs(s, i + 1)
       IN  IF j <= Len(s) /\ s[j] = "}" THEN Parsed(MapV(<<>>), j + 1)
           ELSE ParseMembers(s, j, <<>>)
  ELSE IF s[i] = "["
  THEN LET j == SkipWs(s, i + 1)
       IN  IF j <= Len(s) /\ s[j] = "]" THEN Parsed(ListV(<<>>), j + 1)
           ELSE ParseItems(s, j, <<>>)
  ELSE IF IsDigit(s[i]) THEN ParseNumber(s, i)
  ELSE IF LiteralAt(s, i, <<"t","r","u","e">>) THEN Parsed(TrueV, i + 4)
  ELSE IF LiteralAt(s, i, <<"f","a","l","s","e">>) THEN Parsed(FalseV, i + 5)
  ELSE IF LiteralAt(s, i, <<"n","u","l","l">>) THEN Parsed(NoneV, i + 4)
  ELSE Fail

\* json.loads(s): [ok, val]; ok is FALSE where json.loads raises.
json_loads(s) ==
  LET x == ParseValue(s, SkipWs(s, 1))
  IN  IF x.ok /\ SkipWs(s, x.pos) = Len(s) + 1
      THEN [ok |-> TRUE, val |-> x.val]
      ELSE [ok |-> FALSE, val |-> NoneV]

(***************************************************************************)
(* Text extractor                                                          *)
(***************************************************************************)
\* The place of the first c in s, 0 when there is none (text.index raises).
IndexOf(s, c) ==
  IF \E i \in 1..Len(s) : s[i] = c
  THEN CHOOSE i \in 1..Len(s) : s[i] = c /\ \A j \in 1..(i - 1) : s[j] # c
  ELSE 0

\* The place of the last c in s, 0 when there is none (text.rfind is -1).
RIndexOf(s, c) ==
  IF \E i \in 1..Len(s) : s[i] = c
  THEN CHOOSE i \in 1..Len(s) : s[i] = c /\ \A j \in (i + 1)..Len(s) : s[j] # c
  ELSE 0

\* _extract_json_block(text): the dict, or None.  With no "}" the slice
\* text[start:0] is empty, and json.loads("") raises.
extract_json_block(txt) ==
  IF txt = <<>> THEN NoneV
  ELSE LET start == IndexOf(txt, "{")
           end   == RIndexOf(txt, "}")
       IN  IF start = 0 THEN NoneV
           ELSE LET blob == SubSeq(txt, start, end)
                    r    == json_loads(blob)
                IN  IF r.ok THEN r.val ELSE NoneV

(***************************************************************************)
(* detect, from the response on (lines 283-317).  pc names the line the    *)
(* handler is at; "done" is the return of line 317 and "raised" an         *)
(* exception leaving detect.  call.arg is resp.output_text.                *)
(***************************************************************************)
\* A local that is not assigned yet: one that will hold a str or a list,
\* and one that will hold a dict or the result.
Unset == <<"unset">>

UnsetValue == [t |-> "unset", v |-> <<>>]

\* data.get(k) or ""
GetOrBlank(k) == Or(Get(data, k), StrV(<<>>))

\* fallback_code without the recovery from the raw text.
fallback_code_no_recovery(c, t) ==
  IF take_10digits(c) = <<>>
  THEN IF StartsWith(Upper(c), UNKNOWN) THEN c ELSE <<>>
  ELSE c

\* Lines 287-289: the code after the fallbacks, c the declared code and t
\* the raw text.
fallback_code(c, t) ==
  IF take_10digits(c) = <<>>
  THEN LET guessed == take_10digits(t)
       IN  IF guessed # <<>> THEN guessed
           ELSE IF StartsWith(Upper(c), UNKNOWN) THEN c
           ELSE <<>>
  ELSE c

\* s or "UNKNOWN"
or_unknown(s) == IF s # <<>> THEN s ELSE UNKNOWN

\* Whether DetectOut accepts x for a field declared Optional[str].  A str
\* always is; a list or a mapping never is; a number or a boolean is
\* turned into its str by pydantic 1 and refused by pydantic 2 (lax says
\* which one the build runs).
StrFieldOk(x, lax) == IsStr(x) \/ (lax /\ x.t \in {"num", "bool"})

Raise == pc' = "raised"

L283 ==
  /\ pc = "L283"
  /\ text' = Strip(call.arg)
  /\ pc' = "L284"
  /\ UNCHANGED <<data, code, duty, vat, tech31, alternatives, payments,
                 requirements, decl31, out, call, ret>>

L284 ==
  /\ pc = "L284"
  /\ data' = Or(extract_json_block(text), MapV(<<>>))
  /\ pc' = "L286"
  /\ UNCHANGED <<text, code, duty, vat, tech31, alternatives, payments,
                 requirements, decl31, out, call, ret>>

L286 ==
  /\ pc = "L286"
  /\ IF StripRaises(GetOrBlank(K_code))
     THEN Raise /\ UNCHANGED code
     ELSE code' = Strip(GetOrBlank(K_code).v) /\ pc' = "L287"
  /\ UNCHANGED <<text, data, duty, vat, tech31, alternatives, payments,
                 requirements, decl31, out, call, ret>>

L287 ==
  /\ pc = "L287"
  /\ code' = fallback_code(code, text)
  /\ pc' = "L291"
  /\ UNCHANGED <<text, data, duty, vat, tech31, alternatives, payments,
                 requirements, decl31, out, call, ret>>

L291 ==
  /\ pc = "L291"
  /\ IF Truthy(GetOrBlank(K_duty)) /\ StripRaises(GetOrBlank(K_duty))
     THEN Raise /\ UNCHANGED duty
     ELSE duty' = norm_percent(GetOrBlank(K_duty).v) /\ pc' = "L292"
  /\ UNCHANGED <<text, data, code, vat, tech31, alternatives, payments,
                 requirements, decl31, out, call, ret>>

L292 ==
  /\ pc = "L292"
  /\ IF Truthy(GetOrBlank(K_vat)) /\ StripRaises(GetOrBlank(K_vat))
     THEN Raise /\ UNCHANGED vat
     ELSE vat' = norm_percent(GetOrBlank(K_vat).v) /\ pc' = "L294"
  /\ UNCHANGED <<text, data, code, duty, tech31, alternatives, payments,
                 requirements, decl31, out, call, ret>>

\* Lines 294-296.
L294 ==
  /\ pc = "L294"
  /\ code' = or_unknown(code)
  /\ duty' = or_unknown(duty)
  /\ vat' = or_unknown(vat)
  /\ pc' = "L298"
  /\ UNCHANGED <<text, data, tech31, alternatives, payments, requirements,
                 decl31, out, call, ret>>

L298 ==
  /\ pc = "L298"
  /\ tech31' = stringify_tech31(Get(data, K_tech31))
  /\ pc' = "L299"
  /\ UNCHANGED <<text, data, code, duty, vat, alternatives, payments,
                 requirements, decl31, out, call, ret>>

L299 ==
  /\ pc = "L299"
  /\ alternatives' = normalize_alternatives(Get(data, K_alternatives))
  /\ pc' = "L300"
  /\ UNCHANGED <<text, data, code, duty, vat, tech31, payments, requirements,
                 decl31, out, call, ret>>

L300 ==
  /\ pc = "L300"
  /\ payments' = normalize_payments(Get(data, K_payments), duty, vat)
  /\ pc' = "L301"
  /\ UNCHANGED <<text, data, code, duty, vat, tech31, alternatives,
                 requirements, decl31, out, call, ret>>

L301 ==
  /\ pc = "L301"
  /\ requirements' = normalize_requirements(Get(data, K_requirements))
  /\ pc' = "L302"
  /\ UNCHANGED <<text, data, code, duty, vat, tech31, alternatives, payments,
                 decl31, out, call, ret>>

L302 ==
  /\ pc = "L302"
  /\ IF StripRaises(GetOrBlank(K_decl31))
     THEN Raise /\ UNCHANGED decl31
     ELSE decl31' = Strip(GetOrBlank(K_decl31).v) /\ pc' = "L304"
  /\ UNCHANGED <<text, data, code, duty, vat, tech31, alternatives, payments,
                 requirements, out, call, ret>>

\* Lines 304-317: DetectOut(...) validates its fields, then detect returns.
L304 ==
  /\ pc = "L304"
  /\ \E lax \in BOOLEAN :
       LET description == GetOrBlank(K_description)
           classification_reason == GetOrBlank(K_classification_reason)
       IN  IF StrFieldOk(description, lax)
              /\ StrFieldOk(classification_reason, lax)
           THEN /\ out' = [code |-> code, duty |-> duty, vat |-> vat,
                           raw |-> text,
                           description |-> PyStr(description),
                           tech31 |-> tech31, decl31 |-> decl31,
                           classification_reason |->
                             PyStr(classification_reason),
                           alternatives |-> alternatives,
                           payments |-> payments,
                           requirements |-> requirements]
                /\ pc' = "done"
           ELSE Raise /\ UNCHANGED out
  /\ UNCHANGED <<text, data, code, duty, vat, tech31, alternatives, payments,
                 requirements, decl31, call, ret>>

(***************************************************************************)
(* The answers of the upstream service the model draws from                *)
(***************************************************************************)
\* The longest padding around a run of digits.
MaxPad == 1

\* How far from CodeLen the length of a run of digits goes.
RunSlack == 1

\* The longest percentage string.
MaxPct == 3

\* The most members of a payments mapping.
MaxPairs == 2

\* All the sequences over S of length at most n.
Seqs(S, n) == UNION {[1..k -> S] : k \in 0..n}

\* n times the character d.
Run(d, n) == [i \in 1..n |-> d]

\* The JSON text of a value, written as json.dumps writes it; the strings
\* of the model need no escape.
RECURSIVE JsonText(_)
RECURSIVE JsonItems(_)
RECURSIVE JsonPairs(_)
JsonItems(xs) ==
  IF xs = <<>> THEN <<>> ELSE <<JsonText(Head(xs))>> \o JsonItems(Tail(xs))

JsonPairs(ps) ==
  IF ps = <<>> THEN <<>>
  ELSE <<(<<"\"">> \o Head(ps)[1] \o <<"\"", ":", " ">>
          \o JsonText(Head(ps)[2]))>> \o JsonPairs(Tail(ps))

JsonText(x) ==
  CASE x.t = "str"  -> <<"\"">> \o x.v \o <<"\"">>
    [] x.t = "num"  -> x.v
    [] x.t = "bool" -> IF x.v # <<>> THEN <<"t","r","u","e">>
                                     ELSE <<"f","a","l","s","e">>
    [] x.t = "null" -> <<"n","u","l","l">>
    [] x.t = "list" -> <<"[">> \o Join(<<",", " ">>, JsonItems(x.v)) \o <<"]">>
    [] x.t = "map"  -> <<"{">> \o Join(<<",", " ">>, JsonPairs(x.v)) \o <<"}">>

\* A valid code, and other runs of ten digits.
Ones   == Run("1", CodeLen)
Twos   == Run("2", CodeLen)
Threes == Run("3", CodeLen)

PadChars == {" ", "a", "-"}

RunLens == {0} \cup ((CodeLen - RunSlack)..(CodeLen + RunSlack))

\* A run of digits between paddings, a run broken by a space, and the
\* sentinel in several spellings.
RunStrings ==
  {p \o Run("1", n) \o q : p \in Seqs(PadChars, MaxPad),
                           q \in Seqs(PadChars, MaxPad), n \in RunLens}
  \cup {Run("1", 5) \o <<" ">> \o Run("1", CodeLen - 5),
        Run("1", 4) \o <<" ">> \o Run("1", CodeLen - 5)}

SentinelStrings ==
  {UNKNOWN, <<"u","n","k","n","o","w","n">>, UNKNOWN \o <<" ", "?">>,
   <<"n", "/", "a">>}

\* Values of every JSON type.
SomeValues ==
  {NoneV, StrV(<<>>), StrV(<<" ", "a", " ">>), NumV(<<"5">>), NumV(<<"0">>),
   TrueV, FalseV, ListV(<<>>), ListV(<<StrV(<<" ", "a">>), NumV(<<"5">>)>>),
   ListV(<<StrV(<<" ">>), NoneV>>), MapV(<<>>),
   MapV(<< <<(<<"k">>), StrV(<<"v">>)>> >>),
   MapV(<< <<(<<"k">>), ListV(<<StrV(<<"v">>), StrV(<<>>)>>)>>,
           <<(<<"m">>), MapV(<< <<(<<"n">>), NumV(<<"5">>)>> >>)>>,
           <<(<<"e">>), StrV(<<" ">>)>> >>)}

CodeValues ==
  {StrV(s) : s \in RunStrings \cup SentinelStrings}
  \cup {NoneV, NumV(Ones), NumV(<<"0">>), TrueV, FalseV, ListV(<<>>),
        ListV(<<StrV(Ones)>>), MapV(<<>>)}

\* An alternatives member holding another run of ten digits.
OtherRun ==
  <<K_alternatives, ListV(<<MapV(<< <<K_code, StrV(Threes)>> >>)>>)>>

\* Objects with and without a code, after an optional alternatives member.
CodeObjects ==
  {MapV(a \o c) : a \in {<<>>, <<OtherRun>>},
                  c \in {<<>>} \cup {<< <<K_code, x>> >> : x \in CodeValues}}

\* What stands before and after the object in the answer.
Wraps == {<< <<>>, <<>> >>, << Twos \o <<" ">>, <<>> >>,
          << <<" ">>, <<" ", "o", "k", "\n">> >>}

CodeTexts ==
  {w[1] \o JsonText(o) \o w[2] : o \in CodeObjects, w \in Wraps}

PctChars == {"1", ",", ".", "%", " ", "a"}

PercentStrings ==
  Seqs(PctChars, MaxPct) \cup {<<"1","8",",","5">>, <<"2","0","%">>}

PercentValues ==
  {StrV(s) : s \in PercentStrings}
  \cup {NoneV, NumV(<<"2","0">>), NumV(<<"0">>), TrueV, FalseV,
        ListV(<<StrV(<<"2","0","%">>)>>), MapV(<<>>)}

\* Objects with a valid code and a duty or a vat of every kind.
PercentObjects ==
  {MapV(<< <<K_code, StrV(Ones)>>, <<k, x>> >>) :
     k \in {K_duty, K_vat}, x \in PercentValues}

PayKeys == {K_duty, K_vat, K_excise, K_fees, K_code}

PayItemValues == {NoneV, StrV(<<" ", "5", "%", " ">>), NumV(<<"5">>)}

PayValues ==
  {MapV(p) : p \in Seqs(PayKeys \X PayItemValues, MaxPairs)}
  \cup {NoneV, StrV(<<"5", "%">>), NumV(<<"5">>), TrueV,
        ListV(<<StrV(<<"5", "%">>)>>)}

\* Objects with a payments member of every kind, under two pairs of
\* top-level percentages.
PayObjects ==
  {MapV(d \o << <<K_payments, p>> >>) :
     d \in {<< <<K_duty, StrV(<<"2","0","%">>)>> >>,
            << <<K_vat, StrV(<<"1","8",",","5">>)>>,
               <<K_duty, StrV(<<"-">>)>> >>},
     p \in PayValues}

\* Objects with one other member of every kind.
ShapeObjects ==
  {MapV(<< <<k, x>> >>) :
     k \in {K_tech31, K_alternatives, K_requirements, K_decl31,
            K_description, K_classification_reason},
     x \in SomeValues}

\* Answers with no brace at all.
PlainTexts == RunStrings \cup SentinelStrings \cup {<<>>, <<" ">>}

\* Answers whose braces do not hold one JSON object.
BrokenTexts ==
  LET t == JsonText(MapV(<< <<K_code, StrV(Ones)>> >>))
      u == JsonText(MapV(<< <<K_duty, StrV(<<"5", "%">>)>> >>))
  IN  {SubSeq(t, 1, Len(t) - 1), SubSeq(t, 2, Len(t)), t \o <<" ">> \o u,
       u \o <<" ">> \o t, <<"}", "{">>, <<"{">> \o t,
       <<"{", "1", ":", "2", "}">>, <<"{", "}">>,
       <<"[">> \o u \o <<",", " ">> \o t \o <<"]">>}

RawTexts ==
  CodeTexts
  \cup {JsonText(o) : o \in PercentObjects \cup PayObjects \cup ShapeObjects}
  \cup PlainTexts \cup BrokenTexts

Init ==
  /\ pc = "L283"
  /\ call \in [fn : {"detect"}, arg : RawTexts]
  /\ text = Unset /\ data = UnsetValue /\ code = Unset /\ duty = Unset
  /\ vat = Unset /\ tech31 = Unset /\ alternatives = Unset
  /\ payments = UnsetValue /\ requirements = Unset /\ decl31 = Unset
  /\ out = UnsetValue /\ ret = Unset

Next ==
  \/ L283 \/ L284 \/ L286 \/ L287 \/ L291 \/ L292 \/ L294
  \/ L298 \/ L299 \/ L300 \/ L301 \/ L302 \/ L304

Spec == Init /\ [][Next]_vars

(***************************************************************************)
(* The normalizers called on their own: call is the call, ret its result.  *)
(***************************************************************************)
\* The longest code or reason of an alternative.
MaxStr == 2

\* The longest requirements string.
MaxReq == 3

\* "код 8471300000 группа"
KodGruppa ==
  <<"U+043A","U+043E","U+0434"," ","8","4","7","1","3","0","0","0","0","0",
    " ","U+0433","U+0440","U+0443","U+043F","U+043F","U+0430">>

TakeChars == {" ", "a", "-", "_"}

\* Up to two runs of digits between paddings.
TakeInputs ==
  {p \o Run("1", n) \o m \o Run("2", k) \o q :
     p \in Seqs(TakeChars, MaxPad), m \in Seqs(TakeChars, MaxPad),
     q \in Seqs(TakeChars, MaxPad), n \in RunLens, k \in {0, CodeLen}}
  \cup {KodGruppa}

Return(x) ==
  /\ ret' = x
  /\ pc' = "ret"
  /\ UNCHANGED <<text, data, code, duty, vat, tech31, alternatives, payments,
                 requirements, decl31, out, call>>

InitCall(calls) ==
  /\ pc = "call"
  /\ call \in calls
  /\ text = Unset /\ data = UnsetValue /\ code = Unset /\ duty = Unset
  /\ vat = Unset /\ tech31 = Unset /\ alternatives = Unset
  /\ payments = UnsetValue /\ requirements = Unset /\ decl31 = Unset
  /\ out = UnsetValue /\ ret = Unset

InitScalar ==
  InitCall([fn : {"take_10digits"}, arg : TakeInputs]
           \cup [fn : {"norm_percent"}, arg : PercentStrings])

Take10Call ==
  /\ pc = "call" /\ call.fn = "take_10digits"
  /\ Return(take_10digits(call.arg))

PercentCall ==
  /\ pc = "call" /\ call.fn = "norm_percent"
  /\ Return(norm_percent(call.arg))

NextScalar == Take10Call \/ PercentCall

SpecScalar == InitScalar /\ [][NextScalar]_vars

AltChars == {"1", "a", " "}

AltStrings == Seqs(AltChars, MaxStr)

\* One alternative as a mapping {c: r} and as a list [{"code": c,
\* "reason": r}], records under the Cyrillic keys, and every other shape.
AltInputs ==
  {MapV(<< <<c, StrV(r)>> >>) : c \in AltStrings, r \in AltStrings}
  \cup {ListV(<<MapV(<< <<K_code, StrV(c)>>, <<K_reason, StrV(r)>> >>)>>) :
          c \in AltStrings, r \in AltStrings}
  \cup {ListV(<<MapV(<< <<K_kod, x>>, <<K_obosnovanie, y>>, <<K_code, z>> >>)>>) :
          x \in {StrV(<<"1">>), NumV(<<"5">>)},
          y \in {StrV(<<"a">>), NoneV},
          z \in {StrV(<<>>), NoneV, NumV(<<"0">>), StrV(<<"2">>)}}
  \cup SomeValues

ReqChars == {"a", " ", "-", ";", "\n", "U+2022"}

ReqInputs ==
  {StrV(s) : s \in Seqs(ReqChars, MaxReq)}
  \cup {ListV(<<x, y>>) : x \in SomeValues, y \in {StrV(<<"a">>), NumV(<<"0">>)}}
  \cup SomeValues

InitShape ==
  InitCall([fn : {"normalize_alternatives"}, arg : AltInputs]
           \cup [fn : {"normalize_requirements"}, arg : ReqInputs])

AlternativesCall ==
  /\ pc = "call" /\ call.fn = "normalize_alternatives"
  /\ Return(normalize_alternatives(call.arg))

RequirementsCall ==
  /\ pc = "call" /\ call.fn = "normalize_requirements"
  /\ Return(normalize_requirements(call.arg))

NextShape == AlternativesCall \/ RequirementsCall

SpecShape == InitShape /\ [][NextShape]_vars

(***************************************************************************)
(* The vocabulary of the properties                                        *)
(***************************************************************************)
Returned == pc = "done"

Raised == pc = "raised"

\* One or more digits.
AllDigits(s) == s # <<>> /\ \A i \in 1..Len(s) : IsDigit(s[i])

\* Exactly ten ASCII digits.
TenAsciiDigits(s) == Len(s) = CodeLen /\ \A i \in 1..Len(s) : s[i] \in AsciiDigits

\* <number>%: digits, optionally a point and digits, then the percent sign.
NumberPercent(s) ==
  /\ Len(s) >= 2
  /\ s[Len(s)] = "%"
  /\ LET b == SubSeq(s, 1, Len(s) - 1)
     IN  \/ AllDigits(b)
         \/ \E k \in 1..Len(b) : /\ b[k] = "."
                                 /\ AllDigits(SubSeq(b, 1, k - 1))
                                 /\ AllDigits(SubSeq(b, k + 1, Len(b)))

PercentOrUnknown(s) == NumberPercent(s) \/ s = UNKNOWN

NoBraces(s) == \A i \in 1..Len(s) : s[i] \notin {"{", "}"}

\* The places of s where exactly ten digits stand between characters that
\* are not digits, or the ends of s.
DigitBoundedRuns(s) ==
  {i \in 1..Len(s) :
     /\ i + CodeLen - 1 <= Len(s)
     /\ \A j \in i..(i + CodeLen - 1) : IsDigit(s[j])
     /\ (i = 1 \/ ~IsDigit(s[i - 1]))
     /\ (i + CodeLen > Len(s) \/ ~IsDigit(s[i + CodeLen]))}

\* The same, with no letter and no underscore next to the digits either.
WordBoundedRuns(s) ==
  {i \in DigitBoundedRuns(s) :
     /\ (i = 1 \/ ~IsWord(s[i - 1]))
     /\ (i + CodeLen > Len(s) \/ ~IsWord(s[i + CodeLen]))}

\* The ten characters at the least place of P, "" when P is empty.
FirstRun(s, P) ==
  IF P = {} THEN <<>>
  ELSE LET i == CHOOSE k \in P : \A j \in P : k <= j
       IN  SubSeq(s, i, i + CodeLen - 1)

NoSpaces(s) == SelectSeq(s, LAMBDA c : c # " ")

DefaultPayments ==
  [duty |-> UNKNOWN, vat |-> UNKNOWN, excise |-> DASH, fees |-> DASH]

\* The answer as JSON, when all of it is one JSON value.
WholeAnswer == json_loads(Strip(call.arg))

\* The answer is a JSON object whose code is a string of ten digits.
ObjectWithTenDigitCode ==
  /\ WholeAnswer.ok
  /\ IsMap(WholeAnswer.val)
  /\ IsStr(Get(WholeAnswer.val, K_code))
  /\ Len(Get(WholeAnswer.val, K_code).v) = CodeLen
  /\ AllDigits(Get(WholeAnswer.val, K_code).v)

\* The declared code holds no run of ten digits: a string without one, or
\* a value with no digit in it at all.
DeclaredWithoutRun ==
  /\ data # UnsetValue
  /\ LET x == Get(data, K_code)
     IN  IF IsStr(x) THEN WordBoundedRuns(NoSpaces(x.v)) = {}
         ELSE x.t \in {"null", "bool"} \/ (x.t \in {"list", "map"} /\ x.v = <<>>)

\* What the fallback order makes of the code: the first run of the raw
\* text, else the declared code that starts with the sentinel word, else
\* the sentinel.
FallbackOrderHolds ==
  LET x == Get(data, K_code)
      t == NoSpaces(text)
  IN  IF WordBoundedRuns(t) # {}
      THEN out.code = FirstRun(t, WordBoundedRuns(t))
      ELSE IF IsStr(x) /\ StartsWith(Upper(Strip(x.v)), UNKNOWN)
      THEN StartsWith(Upper(out.code), UNKNOWN)
      ELSE out.code = UNKNOWN

\* What norm_percent made of the declared duty, before line 294.
PercentOfDuty ==
  (pc = "L292" /\ IsStr(GetOrBlank(K_duty))) =>
    LET s == GetOrBlank(K_duty).v
    IN  /\ (\A i \in 1..Len(s) : ~IsDigit(s[i])) => duty = <<>>
        /\ (\E i \in 1..Len(s) : IsDigit(s[i])) => NumberPercent(duty)
        /\ s = <<"1","8",",","5">> => duty = <<"1","8",".","5","%">>
        /\ s = <<"2","0","%">> => duty = <<"2","0","%">>

(***************************************************************************)
(* The properties                                                          *)
(***************************************************************************)
\* C1: detect, from the response on, never raises: whatever the answer,
\* also one whose object holds a number, a boolean, a list or a mapping
\* where a string is expected, it returns a result.
C1_NeverRaises == ~Raised

\* C2: the code of every result is exactly ten ASCII digits or "UNKNOWN".
C2_CodeShape == Returned => (TenAsciiDigits(out.code) \/ out.code = UNKNOWN)

C4_TenDigitRun ==
  (pc = "ret" /\ call.fn = "take_10digits") =>
    LET t == NoSpaces(call.arg)
    IN  ret = FirstRun(t, DigitBoundedRuns(t))

\* C5: normalize_requirements returns a list whose entries are all
\* non-empty after trimming, and the empty list for None, "", [] and {}.
C5_Requirements ==
  (pc = "ret" /\ call.fn = "normalize_requirements") =>
    /\ \A i \in 1..Len(ret) : Strip(ret[i]) # <<>>
    /\ call.arg \in {NoneV, StrV(<<>>), ListV(<<>>), MapV(<<>>)} => ret = <<>>

\* C6: the mapping {c: r} and the list [{"code": c, "reason": r}] both
\* give the one-element list [{code: c, reason: r}], for all strings c, r.
C6_ShapeAgnostic ==
  (pc = "ret" /\ call.fn = "normalize_alternatives") =>
    LET a == call.arg
    IN  /\ (IsMap(a) /\ Len(a.v) = 1 /\ IsStr(a.v[1][2])) =>
             ret = <<[code |-> a.v[1][1], reason |-> a.v[1][2].v]>>
        /\ (/\ IsList(a) /\ Len(a.v) = 1 /\ IsMap(a.v[1])
            /\ Len(a.v[1].v) = 2
            /\ a.v[1].v[1][1] = K_code /\ IsStr(a.v[1].v[1][2])
            /\ a.v[1].v[2][1] = K_reason /\ IsStr(a.v[1].v[2][2])) =>
             ret = <<[code |-> a.v[1].v[1][2].v, reason |-> a.v[1].v[2][2].v]>>

\* The list form of an alternative, normalized to the record the mapping
\* form gives.
C6_Witness ==
  /\ pc = "ret" /\ call.fn = "normalize_alternatives"
  /\ call.arg = ListV(<<MapV(<< <<K_code, StrV(<<"1", "a">>)>>,
                               <<K_reason, StrV(<<"a", " ">>)>> >>)>>)
  /\ ret = <<[code |-> <<"1", "a">>, reason |-> <<"a", " ">>]>>
  /\ ret = normalize_alternatives(MapV(<< <<(<<"1", "a">>), StrV(<<"a", " ">>)>> >>))

\* C7: the payments of line 300 have exactly the keys duty, vat, excise
\* and fees; a key the raw value does not give (the value is no mapping,
\* or lacks the key, or holds null for it) is at its default: the duty or
\* vat of lines 295-296, which is never empty, or the dash; payments {}
\* under duty "20%" and vat "UNKNOWN" gives
\* {duty: "20%", vat: "UNKNOWN", excise: dash, fees: dash}.
C7_Payments ==
  payments # UnsetValue =>
    LET p == Get(data, K_payments)
        NotGiven(k) == ~IsMap(p) \/ Get(p, k) = NoneV
    IN  /\ DOMAIN payments = {"duty", "vat", "excise", "fees"}
        /\ duty # <<>> /\ vat # <<>>
        /\ NotGiven(K_duty) => payments.duty = duty
        /\ NotGiven(K_vat) => payments.vat = vat
        /\ NotGiven(K_excise) => payments.excise = DASH
        /\ NotGiven(K_fees) => payments.fees = DASH
        /\ (p = MapV(<<>>) /\ duty = <<"2","0","%">> /\ vat = UNKNOWN) =>
             payments = [duty |-> <<"2","0","%">>, vat |-> UNKNOWN,
                         excise |-> DASH, fees |-> DASH]
        /\ Returned => (out.payments = payments /\ out.duty = duty
                        /\ out.vat = vat)

\* The empty payments mapping under duty "20%" and no vat.
C7_Witness ==
  /\ Returned
  /\ Get(data, K_payments) = MapV(<<>>)
  /\ out.duty = <<"2","0","%">> /\ out.vat = UNKNOWN
  /\ out.payments = [duty |-> <<"2","0","%">>, vat |-> UNKNOWN,
                     excise |-> DASH, fees |-> DASH]

\* C8: every answer gets its duty and vat normalized (detect does not
\* raise at lines 291-292), the duty and vat of the result are <number>%
\* or "UNKNOWN", and norm_percent gives "" for a string with no digit and
\* <number>% otherwise: "18,5" gives "18.5%" and "20%" gives "20%".
C8_Percentages ==
  /\ ~(Raised /\ code # Unset /\ vat = Unset)
  /\ Returned => (PercentOrUnknown(out.duty) /\ PercentOrUnknown(out.vat))
  /\ PercentOfDuty

\* C8 on the runs that return: the shapes and the values of norm_percent.
C8_OnReturn ==
  /\ Returned => (PercentOrUnknown(out.duty) /\ PercentOrUnknown(out.vat))
  /\ PercentOfDuty

\* C9: for an answer that is a JSON object with a code of ten digits,
\* detect returns, and returns that code.
C9_DeclaredCode ==
  ObjectWithTenDigitCode =>
    /\ ~Raised
    /\ Returned => out.code = Get(WholeAnswer.val, K_code).v

\* C9 on the runs that return.
C9_OnReturn ==
  (ObjectWithTenDigitCode /\ Returned) =>
    out.code = Get(WholeAnswer.val, K_code).v

\* C10: when the declared code holds no run of ten digits, detect returns
\* the first run of the raw text; with no run there either, the declared
\* code that starts with the sentinel word keeps it, and any other code
\* becomes "UNKNOWN".
C10_FallbackOrder ==
  DeclaredWithoutRun =>
    /\ ~Raised
    /\ Returned => FallbackOrderHolds

\* C10 on the runs that return.
C10_OnReturn == (DeclaredWithoutRun /\ Returned) => FallbackOrderHolds

====
